---- MODULE Spec2Model ----
(***************************************************************************)
(* Blackjack-Revamped (src/main.cpp): the round engine of BlackjackGame,   *)
(* its Deck, the hand valuation functions, the NPC decision helpers and    *)
(* the betting, settlement and statistics code of play_round.              *)
(*                                                                         *)
(* The specifications share the variables:                                 *)
(*   Spec      the session: game_loop, play_round and everything they call *)
(*   SpecProfiles  the session with the profiles menu (statistics resets)  *)
(*   SpecLate  the ninth round of a session whose NPCs are down to 5 chips *)
(*   SpecUnlock  one call of unlock_achievement_for                        *)
(*   SpecHands the pure functions over hands, applied to every hand        *)
(*   SpecBets  one iteration of the collect_bets loop, for every agent,    *)
(*             chip balance, input line and random roll                    *)
(*   SpecShoe  build_new_deck and shuffle_deck on every shoe size          *)
(*   SpecStore save_stats_to_file and load_stats_from_file, character by   *)
(*             character                                                   *)
(*   SpecDeal  one call of deal_one                                        *)
(*   SpecTurn, SpecTurnFair  one call of npc_turn, for every NPC           *)
(*   SpecBroke the session of a game constructed with no chips             *)
(***************************************************************************)
EXTENDS Integers, Sequences, FiniteSets, TLC

(***************************************************************************)
(* Bounds of the model                                                     *)
(***************************************************************************)
\* ranks a shoe is built from (the source builds all 13)
NumRanks == 2
\* suits a shoe is built from (the source builds all 4)
NumSuits == 1
\* agents seated by init_players (the source seats all 5)
NumPlayers == 2
\* rounds game_loop plays before the model stops it
MaxRounds == 2
\* the human discards only while the discard pile is shorter than this
MaxDiscardPile == 2
\* profile resets in a session
MaxResets == 1
\* the human hits only while holding fewer cards than this
MaxHumanHand == 4
\* longest hand given to the pure functions in SpecHands
MaxHandLen == 3
\* largest chip balance given to collect_bets in SpecBets
MaxChips == 45
\* longest shoe whose shuffle is followed swap by swap in SpecShoe
MaxShuffled == 12
\* longest player name written to the file in SpecStore
MaxNameLen == 2
\* most records written to the file in SpecStore
MaxRecords == 2

(***************************************************************************)
(* Program constants                                                       *)
(***************************************************************************)
\* BlackjackGame game(200, 20, 1)
starting_chips == 200
bet_amount == 20
\* prepare_round: if (deck.size() < 15)
LowCardThreshold == 15

(***************************************************************************)
(* Cards                                                                   *)
(***************************************************************************)
RankNames == <<"2", "3", "4", "5", "6", "7", "8", "9", "10", "J", "Q", "K", "A">>

RankValue ==
  [r \in {RankNames[i] : i \in 1..13} |->
     CASE r = "2" -> 2 [] r = "3" -> 3 [] r = "4" -> 4 [] r = "5" -> 5
       [] r = "6" -> 6 [] r = "7" -> 7 [] r = "8" -> 8 [] r = "9" -> 9
       [] r = "10" -> 10 [] r = "J" -> 10 [] r = "Q" -> 10 [] r = "K" -> 10
       [] r = "A" -> 11]

Card(r, s) == [rank |-> r, suit |-> s]

Min(a, b) == IF a < b THEN a ELSE b
Max(a, b) == IF a > b THEN a ELSE b

(***************************************************************************)
(* Hand valuation                                                          *)
(***************************************************************************)
\* the first loop of compute_hand_value and of is_soft_hand: the sum of the
\* rank values, every ace counted 11
RECURSIVE RawTotal(_)
RawTotal(hand) ==
  IF hand = <<>> THEN 0
  ELSE RankValue[Head(hand).rank] + RawTotal(Tail(hand))

RECURSIVE AceCount(_)
AceCount(hand) ==
  IF hand = <<>> THEN 0
  ELSE (IF Head(hand).rank = "A" THEN 1 ELSE 0) + AceCount(Tail(hand))

\* a slip: the reduction applied once, not in a loop
ReduceAcesOnce(total, aces) ==
  IF total > 21 /\ aces > 0 THEN total - 10 ELSE total

\* while (total > 21 && aces > 0) { total -= 10; --aces; }
RECURSIVE ReduceAces(_, _)
ReduceAces(total, aces) ==
  IF total > 21 /\ aces > 0 THEN ReduceAces(total - 10, aces - 1) ELSE total

compute_hand_value(hand) == ReduceAces(RawTotal(hand), AceCount(hand))

is_blackjack(hand) == Len(hand) = 2 /\ compute_hand_value(hand) = 21

\* return (aces > 0) && (total <= 21), total being the unreduced sum
is_soft_hand(hand) == AceCount(hand) > 0 /\ RawTotal(hand) <= 21

(***************************************************************************)
(* NPC decision helpers                                                    *)
(***************************************************************************)
\* a slip: the threshold one too low
timid_should_hit(p) == compute_hand_value(p.hand) < 12

cautious_carl_should_hit(p) == compute_hand_value(p.hand) < 13
reckless_randy_should_hit(p) == compute_hand_value(p.hand) < 20

\* the value of the first card of every other agent that holds a card,
\* never less than 2
RECURSIVE get_visible_highest_card_value(_, _)
get_visible_highest_card_value(pls, self_name) ==
  IF pls = <<>> THEN 2
  ELSE LET pl == Head(pls)
           rest == get_visible_highest_card_value(Tail(pls), self_name)
       IN IF pl.name # self_name /\ pl.hand # <<>>
          THEN Max(rest, RankValue[Head(pl.hand).rank])
          ELSE rest

smart_samantha_should_hit(p, all_players) ==
  LET hv == compute_hand_value(p.hand)
      soft == is_soft_hand(p.hand)
      up == get_visible_highest_card_value(all_players, p.name)
  IN IF soft
     THEN IF hv <= 17 THEN TRUE
          ELSE IF hv = 18 THEN up >= 9
          ELSE FALSE
     ELSE IF hv <= 11 THEN TRUE
          ELSE IF hv >= 17 THEN FALSE
          ELSE ~(up >= 2 /\ up <= 6)

\* npc.name.find(word) != npos, for the names init_players gives
NameHas(name, word) ==
  <<name, word>> \in { <<"Cautious Carl", "Cautious">>, <<"Reckless Randy", "Reckless">>,
                       <<"Smart Samantha", "Smart">>, <<"Chaotic Chad", "Chaotic">> }

(***************************************************************************)
(* Deck                                                                    *)
(*                                                                         *)
(* container is the multiset of undealt cards, a count for every card.     *)
(* Every path that fills the deque (build_new_deck at start-up, in         *)
(* prepare_round and in deal_one, and the fold of the discard pile) runs   *)
(* shuffle_deck before front() is read again, so the order of the deque is *)
(* a random arrangement nothing observes before a card is dealt: front()   *)
(* is any undealt card.  discard is the stack, its top last.               *)
(***************************************************************************)
\* the ranks the shoe is built from, the first NumRanks of this order
RankPick == <<"A", "K", "5", "9", "2", "7", "3", "Q", "8", "4", "J", "6", "10">>
ShoeRanks == {RankPick[i] : i \in 1..Min(NumRanks, 13)}
ShoeSuits == 0..(Min(NumSuits, 4) - 1)
AllCards == {Card(r, s) : r \in ShoeRanks, s \in ShoeSuits}

EmptyShoe == [c \in AllCards |-> 0]

RECURSIVE SumOver(_, _)
SumOver(f, S) ==
  IF S = {} THEN 0
  ELSE LET x == CHOOSE y \in S : TRUE IN f[x] + SumOver(f, S \ {x})

\* deck.size()
DeckSize(cont) == SumOver(cont, AllCards)

\* the cards of a sequence, counted
RECURSIVE CountIn(_, _)
CountIn(cards, c) ==
  IF cards = <<>> THEN 0
  ELSE (IF Head(cards) = c THEN 1 ELSE 0) + CountIn(Tail(cards), c)

\* build_new_deck: container.clear(), then `decks` full sets; the discard
\* stack is not touched
build_new_deck(dks) == [c \in AllCards |-> dks]

\* a slip: the top of the discard pile folded into the container as well
Refill_all(cont, disc, dks) ==
  IF DeckSize(cont) # 0 THEN [cont |-> cont, disc |-> disc]
  ELSE IF disc # <<>>
       THEN [cont |-> [c \in AllCards |-> CountIn(disc, c)], disc |-> <<>>]
       ELSE [cont |-> build_new_deck(dks), disc |-> disc]

\* the refill at the head of deal_one, run when the container is empty
Refill(cont, disc, dks) ==
  IF DeckSize(cont) # 0 THEN [cont |-> cont, disc |-> disc]
  ELSE IF disc # <<>>
       THEN [cont |-> [c \in AllCards |-> CountIn(SubSeq(disc, 1, Len(disc) - 1), c)],
             disc |-> <<disc[Len(disc)]>>]
       ELSE [cont |-> build_new_deck(dks), disc |-> disc]

\* deal_one: every result the call can have.  When the container is still
\* empty after the refill (the discard pile held one card), front() and
\* pop_front() act on an empty deque: the process may stop, or go on with
\* whatever card value front() yields.
deal_one(cont, disc, dks) ==
  LET r == Refill(cont, disc, dks)
  IN IF DeckSize(r.cont) = 0
     THEN {[card |-> g, cont |-> r.cont, disc |-> r.disc, fault |-> TRUE, crash |-> FALSE]
             : g \in AllCards}
          \cup {[card |-> CHOOSE g \in AllCards : TRUE, cont |-> r.cont, disc |-> r.disc,
                 fault |-> TRUE, crash |-> TRUE]}
     ELSE {[card |-> k,
            cont |-> [r.cont EXCEPT ![k] = @ - 1],
            disc |-> r.disc, fault |-> FALSE, crash |-> FALSE]
             : k \in {c \in AllCards : r.cont[c] > 0}}

\* discard_card
discard_card(disc, c) == Append(disc, c)

(***************************************************************************)
(* State                                                                   *)
(***************************************************************************)
VARIABLES
  pc,                \* where game_loop / play_round stands
  round,             \* game_loop's round counter
  decks,             \* deck.decks
  container,         \* deck.container
  discard,           \* deck.discard
  players,           \* the roster, a sequence of Player
  betting_pot,       \* sequence of <<name, bet>>
  chip_transactions, \* the queue push_transaction appends to
  persistent_stats,  \* name -> PlayerStats
  winners,           \* play_round's winners list, as roster positions
  turn,              \* the roster position the running loop is at
  pass,              \* initial_deal_animated's pass
  resets,            \* profile resets so far
  deal_fault,        \* front() was read on an empty container
  probe,             \* input and result of the function under a harness
  stats_file         \* player_stats.db: whether it exists, and its lines

vars == <<pc, round, decks, container, discard, players, betting_pot,
          chip_transactions, persistent_stats, winners, turn, pass, resets,
          deal_fault, probe, stats_file>>

FullRoster == <<"You", "Cautious Carl", "Reckless Randy", "Smart Samantha", "Chaotic Chad">>
Roster == SubSeq(FullRoster, 1, Min(NumPlayers, 5))
RosterNames == {Roster[i] : i \in 1..Len(Roster)}

\* Player(name, human, starting_chips)
NewPlayer(n, human, c) ==
  [name |-> n, is_human |-> human, chips |-> c, hand |-> <<>>, active |-> TRUE,
   stood |-> FALSE, busted |-> FALSE, wager_history |-> <<>>, last_bet |-> 0]

\* PlayerStats{}
ZeroStats ==
  [wins |-> 0, losses |-> 0, ties |-> 0, best_streak |-> 0, current_streak |-> 0,
   biggest_win |-> 0, total_games |-> 0, blackjacks |-> 0, achievements |-> {}]

\* init_players
init_players == [i \in 1..Len(Roster) |-> NewPlayer(Roster[i], i = 1, starting_chips)]

clear_hand(p) == [p EXCEPT !.hand = <<>>, !.active = TRUE, !.stood = FALSE, !.busted = FALSE]
receive_card(p, c) == [p EXCEPT !.hand = Append(@, c)]
hand_value(p) == compute_hand_value(p.hand)

NoProbe == [kind |-> "none"]

\* escape_name: every ' ' of the name becomes '_'; the names init_players gives
escape_name(name) ==
  CASE name = "Cautious Carl" -> "Cautious_Carl"
    [] name = "Reckless Randy" -> "Reckless_Randy"
    [] name = "Smart Samantha" -> "Smart_Samantha"
    [] name = "Chaotic Chad" -> "Chaotic_Chad"
    [] OTHER -> name

\* the line save_stats_to_file writes for one entry: the escaped name, the
\* eight counters, and the achievements only when there are some
stats_line(name, ps) ==
  <<escape_name(name), ps.wins, ps.losses, ps.ties, ps.best_streak, ps.current_streak,
    ps.biggest_win, ps.total_games, ps.blackjacks>>
    \o (IF ps.achievements = {} THEN <<>> ELSE <<ps.achievements>>)

\* no player_stats.db yet
NoFile == [exists |-> FALSE, lines |-> {}]

\* save_stats_to_file: the file is written anew, one line for every entry
save_stats_to_file(stats) ==
  [exists |-> TRUE, lines |-> {stats_line(n, stats[n]) : n \in DOMAIN stats}]

\* the state the constructor leaves: one deck built, the roster seated, no
\* stats file yet
Init ==
  /\ pc = "startup"
  /\ round = 0
  /\ decks = 1
  /\ container = build_new_deck(1)
  /\ discard = <<>>
  /\ players = init_players
  /\ betting_pot = <<>>
  /\ chip_transactions = <<>>
  /\ persistent_stats = [n \in {Roster[i] : i \in 1..Len(Roster)} |-> ZeroStats]
  /\ winners = <<>>
  /\ turn = 0
  /\ pass = 0
  /\ resets = 0
  /\ deal_fault = FALSE
  /\ probe = NoProbe
  /\ stats_file = NoFile

(***************************************************************************)
(* startup_config                                                          *)
(***************************************************************************)
\* the shoe sizes typed at the prompt; anything but 1, 2, 4, 6 gives 1
DeckInputs == {3, 6}

startup_config ==
  /\ pc = "startup"
  /\ \E typed \in DeckInputs :
       LET d == IF typed \in {1, 2, 4, 6} THEN typed ELSE 1
       IN /\ decks' = d
          /\ container' = build_new_deck(d)
  /\ pc' = "prepare"
  /\ UNCHANGED <<round, discard, players, betting_pot, chip_transactions,
                 persistent_stats, winners, turn, pass, resets, deal_fault, probe, stats_file>>

(***************************************************************************)
(* prepare_round                                                           *)
(***************************************************************************)
low_card_rebuild(cont, dks) ==
  IF DeckSize(cont) < LowCardThreshold THEN build_new_deck(dks) ELSE cont

prepare_round ==
  /\ pc = "prepare"
  /\ round < MaxRounds
  /\ round' = round + 1
  /\ betting_pot' = <<>>
  /\ players' = [i \in 1..Len(players) |-> clear_hand(players[i])]
  /\ container' = low_card_rebuild(container, decks)
  /\ pc' = "bets"
  /\ turn' = 1
  /\ UNCHANGED <<decks, discard, chip_transactions, persistent_stats, winners,
                 pass, resets, deal_fault, probe, stats_file>>

(***************************************************************************)
(* collect_bets                                                            *)
(***************************************************************************)
\* the line read from the human: empty, a number, or anything stoi rejects
HumanLines ==
  {[kind |-> "empty", n |-> 0], [kind |-> "junk", n |-> 0]}
    \cup {[kind |-> "num", n |-> k] : k \in {5, 1000}}

\* a slip: the human's line taken as typed, a stake of zero let through
human_bet_unfloored(p, line) ==
  IF line.kind = "num" THEN Min(p.chips, Max(0, line.n - 5)) ELSE Min(p.chips, bet_amount)

human_bet(p, line) ==
  LET default_bet == IF p.last_bet > 0 THEN p.last_bet ELSE bet_amount
  IN IF line.kind = "num"
     THEN LET lo == IF line.n < 1 THEN 1 ELSE line.n
          IN IF lo > p.chips THEN p.chips ELSE lo
     ELSE Min(p.chips, default_bet)

npc_extra(p, roll, streak) ==
  IF NameHas(p.name, "Cautious")
  THEN IF roll > 90 /\ p.chips > bet_amount THEN bet_amount \div 2 ELSE 0
  ELSE IF NameHas(p.name, "Reckless")
  THEN IF roll > 40 /\ p.chips > bet_amount THEN bet_amount ELSE 0
  ELSE IF NameHas(p.name, "Smart")
  THEN IF roll > 95 /\ p.chips > bet_amount * 2 THEN bet_amount * 2
       ELSE IF streak > 1 /\ p.chips > bet_amount THEN bet_amount \div 2
       ELSE 0
  ELSE IF NameHas(p.name, "Chaotic")
  THEN IF roll % 2 = 0 THEN roll % (bet_amount + 1) ELSE 0
  ELSE 0

npc_bet(p, roll, streak) ==
  LET bet == Min(p.chips, bet_amount + npc_extra(p, roll, streak))
  IN IF roll < 6 /\ p.chips >= 1 THEN Max(1, bet_amount \div 2) ELSE bet

\* the tail of one iteration: the stake leaves the chips and is recorded
place_bet(p, bet) ==
  [p EXCEPT !.chips = @ - bet, !.wager_history = Append(@, bet), !.last_bet = bet]

\* the rolls dist(rng) gives an NPC: a middle roll in the rounds of a session
\* from its start, a low roll as well in the round of SpecLate
GameRolls == IF round > MaxRounds THEN {3, 50} ELSE {50}

\* one iteration of the loop of collect_bets, for the agent at `turn`
collect_bets ==
  /\ pc = "bets"
  /\ LET p == players[turn]
     IN IF p.chips <= 0
        THEN UNCHANGED <<players, betting_pot, chip_transactions>>
        ELSE \E bet \in (IF p.is_human
                         THEN {human_bet(p, line) : line \in HumanLines}
                         ELSE {npc_bet(p, roll, persistent_stats[p.name].current_streak)
                                 : roll \in GameRolls}) :
               /\ players' = [players EXCEPT ![turn] = place_bet(p, bet)]
               /\ betting_pot' = Append(betting_pot, <<p.name, bet>>)
               /\ chip_transactions' = Append(chip_transactions, 0 - bet)
  /\ IF turn < Len(players)
     THEN turn' = turn + 1 /\ UNCHANGED <<pc, pass>>
     ELSE turn' = 1 /\ pass' = 0 /\ pc' = "deal"
  /\ UNCHANGED <<round, decks, container, discard, persistent_stats, winners,
                 resets, deal_fault, probe, stats_file>>

(***************************************************************************)
(* initial_deal_animated                                                   *)
(***************************************************************************)
\* one iteration of the inner loop: the agent at `turn` in pass `pass`
initial_deal_animated ==
  /\ pc = "deal"
  /\ IF players[turn].chips < 0
     THEN /\ UNCHANGED <<players, container, discard, deal_fault>>
          /\ IF turn < Len(players)
             THEN turn' = turn + 1 /\ UNCHANGED <<pc, pass>>
             ELSE IF pass = 0
                  THEN turn' = 1 /\ pass' = 1 /\ UNCHANGED pc
                  ELSE turn' = 0 /\ pc' = "blackjacks" /\ UNCHANGED pass
     ELSE \E o \in deal_one(container, discard, decks) :
            /\ container' = o.cont
            /\ discard' = o.disc
            /\ deal_fault' = (deal_fault \/ o.fault)
            /\ IF o.crash
               THEN pc' = "crashed" /\ UNCHANGED <<players, turn, pass>>
               ELSE /\ players' = [players EXCEPT ![turn] = receive_card(@, o.card)]
                    /\ IF turn < Len(players)
                       THEN turn' = turn + 1 /\ UNCHANGED <<pc, pass>>
                       ELSE IF pass = 0
                            THEN turn' = 1 /\ pass' = 1 /\ UNCHANGED pc
                            ELSE turn' = 0 /\ pc' = "blackjacks" /\ UNCHANGED pass
  /\ UNCHANGED <<round, decks, betting_pot, chip_transactions, persistent_stats,
                 winners, resets, probe, stats_file>>

(***************************************************************************)
(* Achievements                                                            *)
(***************************************************************************)
\* unlock_achievement_for: nothing for an unknown name or a key already held
unlock_achievement_for(stats, player_name, ach_key) ==
  IF player_name \notin DOMAIN stats THEN stats
  ELSE IF ach_key \in stats[player_name].achievements THEN stats
  ELSE [stats EXCEPT ![player_name].achievements = @ \cup {ach_key}]

\* a slip: the file written on every call
unlock_file_always(file, stats, player_name, ach_key) ==
  save_stats_to_file(unlock_achievement_for(stats, player_name, ach_key))

\* the file after unlock_achievement_for: written only when a key was added
unlock_file(file, stats, player_name, ach_key) ==
  IF player_name \in DOMAIN stats /\ ach_key \notin stats[player_name].achievements
  THEN save_stats_to_file(unlock_achievement_for(stats, player_name, ach_key))
  ELSE file

unlock_if(cond, stats, player_name, ach_key) ==
  IF cond THEN unlock_achievement_for(stats, player_name, ach_key) ELSE stats

(***************************************************************************)
(* play_round: the blackjack scan after the deal                           *)
(***************************************************************************)
\* a slip: no hand taken for a blackjack by the scan
NaturalNever(pls, i) == FALSE

\* the agents the scan marks: dealt in, two cards, value 21
NaturalAt(pls, i) == ~(pls[i].chips < 0) /\ is_blackjack(pls[i].hand)

RECURSIVE ScanStats(_, _, _)
ScanStats(stats, pls, i) ==
  IF i > Len(pls) THEN stats
  ELSE IF NaturalAt(pls, i)
       THEN LET s1 == [stats EXCEPT ![pls[i].name].blackjacks = @ + 1]
                s2 == unlock_if(pls[i].is_human, s1, pls[i].name, "BLACKJACK")
            IN ScanStats(s2, pls, i + 1)
       ELSE ScanStats(stats, pls, i + 1)

\* the file over the same scan: written when the human's BLACKJACK is new
RECURSIVE ScanFile(_, _, _, _)
ScanFile(file, stats, pls, i) ==
  IF i > Len(pls) THEN file
  ELSE IF NaturalAt(pls, i)
       THEN LET s1 == [stats EXCEPT ![pls[i].name].blackjacks = @ + 1]
                s2 == unlock_if(pls[i].is_human, s1, pls[i].name, "BLACKJACK")
                f2 == IF pls[i].is_human
                      THEN unlock_file(file, s1, pls[i].name, "BLACKJACK") ELSE file
            IN ScanFile(f2, s2, pls, i + 1)
       ELSE ScanFile(file, stats, pls, i + 1)

\* the first agent after position i that the action loop gives a turn:
\* chips not negative, neither stood nor busted; 0 when there is none
RECURSIVE NextTurn(_, _)
NextTurn(pls, i) ==
  IF i >= Len(pls) THEN 0
  ELSE IF ~(pls[i + 1].chips < 0) /\ ~(pls[i + 1].stood \/ pls[i + 1].busted)
       THEN i + 1
       ELSE NextTurn(pls, i + 1)

\* where play_round goes once the turn at position i has ended
AfterTurn(pls, i) ==
  LET n == NextTurn(pls, i) IN [pc |-> IF n = 0 THEN "settle" ELSE "turns", turn |-> n]

detect_blackjacks ==
  /\ pc = "blackjacks"
  /\ LET pls == [i \in 1..Len(players) |->
                   IF NaturalAt(players, i)
                   THEN [players[i] EXCEPT !.stood = TRUE, !.active = FALSE]
                   ELSE players[i]]
     IN /\ players' = pls
        /\ persistent_stats' = ScanStats(persistent_stats, players, 1)
        /\ stats_file' = ScanFile(stats_file, persistent_stats, players, 1)
        /\ pc' = AfterTurn(pls, 0).pc
        /\ turn' = AfterTurn(pls, 0).turn
  /\ UNCHANGED <<round, decks, container, discard, betting_pot, chip_transactions,
                 winners, pass, resets, deal_fault, probe>>

(***************************************************************************)
(* npc_turn                                                                *)
(***************************************************************************)
\* the values should_hit can take in one pass of the loop
should_hit(npc, pls) ==
  IF NameHas(npc.name, "Cautious") THEN {cautious_carl_should_hit(npc)}
  ELSE IF NameHas(npc.name, "Reckless") THEN {reckless_randy_should_hit(npc)}
  ELSE IF NameHas(npc.name, "Smart") THEN {smart_samantha_should_hit(npc, pls)}
  ELSE IF NameHas(npc.name, "Chaotic") THEN {TRUE, FALSE}
  ELSE {hand_value(npc) < 16}

\* a slip: the drawn card taken, the value not looked at
after_draw_unchecked(p, c) == receive_card(p, c)

\* the agent after a drawn card: busted when the value passes 21
after_draw(p, c) ==
  LET q == receive_card(p, c)
  IN IF hand_value(q) > 21 THEN [q EXCEPT !.busted = TRUE, !.active = FALSE] ELSE q

\* a slip: the agent that stands not marked stood
stand_unmarked(p) == [p EXCEPT !.active = FALSE]

stand(p) == [p EXCEPT !.stood = TRUE, !.active = FALSE]

\* one pass of the while loop of npc_turn, the NPC hitting
npc_hit ==
  /\ pc = "turns"
  /\ ~players[turn].is_human
  /\ TRUE \in should_hit(players[turn], players)
  /\ \E o \in deal_one(container, discard, decks) :
       /\ container' = o.cont
       /\ discard' = o.disc
       /\ deal_fault' = (deal_fault \/ o.fault)
       /\ IF o.crash
          THEN pc' = "crashed" /\ UNCHANGED <<players, turn>>
          ELSE LET pls == [players EXCEPT ![turn] = after_draw(@, o.card)]
               IN /\ players' = pls
                  /\ IF pls[turn].busted
                     THEN pc' = AfterTurn(pls, turn).pc /\ turn' = AfterTurn(pls, turn).turn
                     ELSE UNCHANGED <<pc, turn>>
  /\ UNCHANGED <<round, decks, betting_pot, chip_transactions, persistent_stats,
                 winners, pass, resets, probe, stats_file>>

\* one pass of the while loop of npc_turn, the NPC standing
npc_stand ==
  /\ pc = "turns"
  /\ ~players[turn].is_human
  /\ FALSE \in should_hit(players[turn], players)
  /\ LET pls == [players EXCEPT ![turn] = stand(@)]
     IN /\ players' = pls
        /\ pc' = AfterTurn(pls, turn).pc
        /\ turn' = AfterTurn(pls, turn).turn
  /\ UNCHANGED <<round, decks, container, discard, betting_pot, chip_transactions,
                 persistent_stats, winners, pass, resets, deal_fault, probe, stats_file>>

(***************************************************************************)
(* human_turn: one pass of its loop for each line typed                    *)
(***************************************************************************)
\* 'h'
human_hit ==
  /\ pc = "turns"
  /\ players[turn].is_human
  /\ Len(players[turn].hand) < MaxHumanHand
  /\ \E o \in deal_one(container, discard, decks) :
       /\ container' = o.cont
       /\ discard' = o.disc
       /\ deal_fault' = (deal_fault \/ o.fault)
       /\ IF o.crash
          THEN pc' = "crashed" /\ UNCHANGED <<players, turn, persistent_stats, stats_file>>
          ELSE LET pls == [players EXCEPT ![turn] = after_draw(@, o.card)]
               IN /\ players' = pls
                  /\ persistent_stats' =
                       unlock_if(pls[turn].busted, persistent_stats, pls[turn].name, "IT_HAPPENS")
                  /\ stats_file' =
                       IF pls[turn].busted
                       THEN unlock_file(stats_file, persistent_stats, pls[turn].name, "IT_HAPPENS")
                       ELSE stats_file
                  /\ IF pls[turn].busted
                     THEN pc' = AfterTurn(pls, turn).pc /\ turn' = AfterTurn(pls, turn).turn
                     ELSE UNCHANGED <<pc, turn>>
  /\ UNCHANGED <<round, decks, betting_pot, chip_transactions, winners, pass,
                 resets, probe>>

\* 's'
human_stand ==
  /\ pc = "turns"
  /\ players[turn].is_human
  /\ LET pls == [players EXCEPT ![turn] = stand(@)]
     IN /\ players' = pls
        /\ pc' = AfterTurn(pls, turn).pc
        /\ turn' = AfterTurn(pls, turn).turn
  /\ UNCHANGED <<round, decks, container, discard, betting_pot, chip_transactions,
                 persistent_stats, winners, pass, resets, deal_fault, probe, stats_file>>

\* 'd': the last card of the hand goes on the discard pile
human_discard ==
  /\ pc = "turns"
  /\ players[turn].is_human
  /\ players[turn].hand # <<>>
  /\ Len(discard) < MaxDiscardPile
  /\ LET h == players[turn].hand
     IN /\ players' = [players EXCEPT ![turn].hand = SubSeq(h, 1, Len(h) - 1)]
        /\ discard' = discard_card(discard, h[Len(h)])
  /\ UNCHANGED <<pc, round, decks, container, betting_pot, chip_transactions,
                 persistent_stats, winners, turn, pass, resets, deal_fault, probe, stats_file>>

\* 'q': save_stats_to_file(); exit(0)
human_quit ==
  /\ pc = "turns"
  /\ players[turn].is_human
  /\ pc' = "exited"
  /\ stats_file' = save_stats_to_file(persistent_stats)
  /\ UNCHANGED <<round, decks, container, discard, players, betting_pot,
                 chip_transactions, persistent_stats, winners, turn, pass, resets,
                 deal_fault, probe>>

(***************************************************************************)
(* play_round: winners                                                     *)
(***************************************************************************)
\* the loop that raises best_value from 0 over the agents not busted
RECURSIVE BestFrom(_, _, _)
BestFrom(pls, i, best) ==
  IF i > Len(pls) THEN best
  ELSE LET hv == hand_value(pls[i])
       IN IF ~pls[i].busted /\ hv > best /\ hv <= 21
          THEN BestFrom(pls, i + 1, hv)
          ELSE BestFrom(pls, i + 1, best)

best_value(pls) == BestFrom(pls, 1, 0)

\* a slip: busted agents not left out of the winners
winners_with_busted(pls) ==
  SelectSeq([i \in 1..Len(pls) |-> i],
            LAMBDA i : hand_value(pls[i]) = best_value(pls) \/ pls[i].busted)

\* the winners list, as roster positions in roster order
evaluate_winners(pls) ==
  SelectSeq([i \in 1..Len(pls) |-> i],
            LAMBDA i : ~pls[i].busted /\ hand_value(pls[i]) = best_value(pls))

IsWinner(ws, i) == \E k \in 1..Len(ws) : ws[k] = i

(***************************************************************************)
(* resolve_payouts_and_update_stats                                        *)
(***************************************************************************)
RECURSIVE pot_total(_)
pot_total(pot) == IF pot = <<>> THEN 0 ELSE Head(pot)[2] + pot_total(Tail(pot))

\* bet_by_player[name]
RECURSIVE bet_by_player(_, _)
bet_by_player(pot, name) ==
  IF pot = <<>> THEN 0
  ELSE (IF Head(pot)[1] = name THEN Head(pot)[2] ELSE 0) + bet_by_player(Tail(pot), name)

\* a slip: the blackjack bonus left out
payout_flat(player_bet, natural, total_pot, nwinners) ==
  IF player_bet <= 0 THEN total_pot \div nwinners ELSE player_bet * 2

\* the payout of one winner
payout_of(player_bet, natural, total_pot, nwinners) ==
  IF player_bet <= 0 THEN total_pot \div nwinners
  ELSE IF natural THEN player_bet + (player_bet * 3) \div 2
  ELSE player_bet * 2

\* the payout the winner at roster position i gets
winner_payout(pls, pot, ws, i) ==
  payout_of(bet_by_player(pot, pls[i].name), is_blackjack(pls[i].hand),
            pot_total(pot), Len(ws))

\* nothing is paid on an empty pot or to an empty winners list
pays(pot, ws) == pot_total(pot) > 0 /\ ws # <<>>

\* the roster after the payout loop
paid_players(pls, pot, ws) ==
  IF ~pays(pot, ws) THEN pls
  ELSE [i \in 1..Len(pls) |->
          IF IsWinner(ws, i)
          THEN [pls[i] EXCEPT !.chips = @ + winner_payout(pls, pot, ws, i)]
          ELSE pls[i]]

\* the transactions the payout loop pushes, in winners order
paid_transactions(pls, pot, ws) ==
  IF ~pays(pot, ws) THEN <<>>
  ELSE [k \in 1..Len(ws) |-> winner_payout(pls, pot, ws, ws[k])]

(***************************************************************************)
(* play_round: statistics                                                  *)
(***************************************************************************)
\* the all-bust loop
RECURSIVE all_bust_stats(_, _, _)
all_bust_stats(stats, pls, i) ==
  IF i > Len(pls) THEN stats
  ELSE IF pls[i].chips >= 0
       THEN all_bust_stats(
              [stats EXCEPT ![pls[i].name].losses = @ + 1,
                            ![pls[i].name].current_streak = 0,
                            ![pls[i].name].total_games = @ + 1], pls, i + 1)
       ELSE all_bust_stats(stats, pls, i + 1)

\* a slip: the best streak left as it was
win_record_best_kept(ps, natural) ==
  [ps EXCEPT !.wins = @ + 1, !.current_streak = @ + 1, !.total_games = @ + 1]

\* a slip: the winner counted twice in total_games
win_record_twice(ps, natural) ==
  [ps EXCEPT !.wins = @ + 1, !.current_streak = @ + 1, !.total_games = @ + 2]

\* one winner's record after the loop over the winners
win_record(ps, natural) ==
  LET a == [ps EXCEPT !.wins = @ + 1, !.current_streak = @ + 1, !.total_games = @ + 1]
      b == IF a.current_streak > a.best_streak
           THEN [a EXCEPT !.best_streak = a.current_streak] ELSE a
  IN IF natural THEN [b EXCEPT !.blackjacks = @ + 1] ELSE b

RECURSIVE winner_stats(_, _, _, _)
winner_stats(stats, pls, ws, k) ==
  IF k > Len(ws) THEN stats
  ELSE LET w == pls[ws[k]]
       IN winner_stats([stats EXCEPT ![w.name] = win_record(@, is_blackjack(w.hand))],
                       pls, ws, k + 1)

\* a slip: the loss counted, the game not
RECURSIVE loser_stats_uncounted(_, _, _, _)
loser_stats_uncounted(stats, pls, ws, i) ==
  IF i > Len(pls) THEN stats
  ELSE IF ~IsWinner(ws, i)
       THEN loser_stats_uncounted(
              [stats EXCEPT ![pls[i].name].losses = @ + 1,
                            ![pls[i].name].current_streak = 0], pls, ws, i + 1)
       ELSE loser_stats_uncounted(stats, pls, ws, i + 1)

\* the closing loop: every agent that is not a winner takes a loss
RECURSIVE loser_stats(_, _, _, _)
loser_stats(stats, pls, ws, i) ==
  IF i > Len(pls) THEN stats
  ELSE IF ~IsWinner(ws, i)
       THEN loser_stats(
              [stats EXCEPT ![pls[i].name].losses = @ + 1,
                            ![pls[i].name].current_streak = 0,
                            ![pls[i].name].total_games = @ + 1], pls, ws, i + 1)
       ELSE loser_stats(stats, pls, ws, i + 1)

HumanWon(pls, ws) == \E k \in 1..Len(ws) : pls[ws[k]].is_human

\* the unlocks of the branch taken when the human is among the winners
human_won_unlocks(stats, pls, txs) ==
  LET chips_now == IF \E i \in 1..Len(pls) : pls[i].is_human
                   THEN pls[CHOOSE i \in 1..Len(pls) : pls[i].is_human].chips ELSE 0
      s1 == unlock_if(\E k \in 1..Len(txs) : txs[k] >= 40, stats, "You", "HIGH_ROLLER")
      s2 == unlock_if(s1["You"].wins >= 10, s1, "You", "CARD_SHARK")
      s3 == unlock_if(s2["You"].current_streak >= 3, s2, "You", "HOT_STREAK")
      s4 == unlock_if(chips_now >= 200, s3, "You", "SURVIVOR")
      s5 == unlock_if(chips_now >= 300, s4, "You", "UNSTOPPABLE")
  IN unlock_if(\E i \in 1..Len(pls) :
                 ~pls[i].is_human /\ hand_value(pls[i]) \in {20, 21},
               s5, "You", "AGAINST_ODDS")

\* the unlock of the other branch
RECURSIVE close_call_unlocks(_, _, _)
close_call_unlocks(stats, pls, i) ==
  IF i > Len(pls) THEN stats
  ELSE close_call_unlocks(
         unlock_if(pls[i].is_human /\ pls[i].stood /\ hand_value(pls[i]) = 20,
                   stats, pls[i].name, "CLOSE_CALL"), pls, i + 1)

post_round_unlocks(stats) ==
  LET s1 == unlock_if(stats["You"].total_games >= 20, stats, "You", "MARATHONER")
  IN unlock_if(s1["You"].total_games >= 50, s1, "You", "GAMBLER_SPIRIT")

\* persistent_stats after the round, from the winners list on
settled_stats(stats, pls, pot, ws, txs) ==
  IF ws = <<>>
  THEN post_round_unlocks(all_bust_stats(stats, pls, 1))
  ELSE LET s1 == winner_stats(stats, pls, ws, 1)
           paid == paid_players(pls, pot, ws)
           txs2 == txs \o paid_transactions(pls, pot, ws)
           s2 == IF HumanWon(pls, ws)
                 THEN human_won_unlocks(s1, paid, txs2)
                 ELSE close_call_unlocks(s1, paid, 1)
       IN post_round_unlocks(loser_stats(s2, paid, ws, 1))

\* play_round from "evaluate winners" to its end
settle_round ==
  /\ pc = "settle"
  /\ LET ws == evaluate_winners(players)
     IN /\ winners' = ws
        /\ players' = paid_players(players, betting_pot, ws)
        /\ chip_transactions' = chip_transactions \o paid_transactions(players, betting_pot, ws)
        /\ persistent_stats' =
             settled_stats(persistent_stats, players, betting_pot, ws, chip_transactions)
  /\ stats_file' = save_stats_to_file(persistent_stats')
  /\ pc' = "ask"
  /\ UNCHANGED <<round, decks, container, discard, betting_pot, turn, pass, resets,
                 deal_fault, probe>>

(***************************************************************************)
(* display_profiles_menu                                                   *)
(***************************************************************************)
\* the choices that change state: 3 with a name typed, and 4
MenuOps ==
  {[choice |-> 3, name |-> n] : n \in {Roster[i] : i \in 1..Len(Roster)} \cup {"Nobody"}}
    \cup {[choice |-> 4, name |-> ""]}

menu_stats(stats, op) ==
  IF op.choice = 3
  THEN IF op.name \in DOMAIN stats THEN [stats EXCEPT ![op.name] = ZeroStats] ELSE stats
  ELSE [n \in DOMAIN stats |-> ZeroStats]

menu_players(stats, pls, op) ==
  IF op.choice = 3
  THEN IF op.name \in DOMAIN stats
       THEN [i \in 1..Len(pls) |->
               IF pls[i].name = op.name THEN [pls[i] EXCEPT !.chips = starting_chips]
               ELSE pls[i]]
       ELSE pls
  ELSE [i \in 1..Len(pls) |->
          [pls[i] EXCEPT !.chips = starting_chips, !.wager_history = <<>>]]

\* the file after the choice: written when a profile was reset
menu_file(file, stats, op) ==
  IF op.choice = 3 /\ op.name \notin DOMAIN stats THEN file
  ELSE save_stats_to_file(menu_stats(stats, op))

\* 'v' typed in human_turn: one reset made in the menu
view_profiles ==
  /\ pc = "turns"
  /\ players[turn].is_human
  /\ resets < MaxResets
  /\ \E op \in MenuOps :
       /\ persistent_stats' = menu_stats(persistent_stats, op)
       /\ players' = menu_players(persistent_stats, players, op)
       /\ stats_file' = menu_file(stats_file, persistent_stats, op)
  /\ resets' = resets + 1
  /\ UNCHANGED <<pc, round, decks, container, discard, betting_pot, chip_transactions,
                 winners, turn, pass, deal_fault, probe>>

(***************************************************************************)
(* game_loop: the prompt after a round, and the removal of the bankrupt    *)
(***************************************************************************)
\* a slip: nobody removed
remove_nobody(pls) == pls

\* the roster without the agents whose chips are <= 0
remove_bankrupt(pls) == SelectSeq(pls, LAMBDA q : ~(q.chips <= 0))

\* 'y' or 'n'
another_round ==
  /\ pc = "ask"
  /\ \E playing \in {TRUE, FALSE} :
       LET pls == remove_bankrupt(players)
       IN /\ playing => round < MaxRounds
          /\ players' = pls
          /\ pc' = IF Len(pls) <= 1 \/ ~playing THEN "ended" ELSE "prepare"
          /\ stats_file' = IF Len(pls) <= 1 \/ ~playing
                           THEN save_stats_to_file(persistent_stats) ELSE stats_file
  /\ UNCHANGED <<round, decks, container, discard, betting_pot, chip_transactions,
                 persistent_stats, winners, turn, pass, resets, deal_fault, probe>>

\* 'p': the menu is shown, a reset made, then the loop goes on as for 'y';
\* prepare_round stops the model after MaxRounds rounds
another_round_profiles ==
  /\ pc = "ask"
  /\ resets < MaxResets
  /\ \E op \in MenuOps :
       LET pls == remove_bankrupt(menu_players(persistent_stats, players, op))
       IN /\ persistent_stats' = menu_stats(persistent_stats, op)
          /\ players' = pls
          /\ pc' = IF Len(pls) <= 1 THEN "ended" ELSE "prepare"
          /\ stats_file' = IF Len(pls) <= 1
                           THEN save_stats_to_file(menu_stats(persistent_stats, op))
                           ELSE menu_file(stats_file, persistent_stats, op)
  /\ resets' = resets + 1
  /\ UNCHANGED <<round, decks, container, discard, betting_pot, chip_transactions,
                 winners, turn, pass, deal_fault, probe>>

(***************************************************************************)
(* The session                                                             *)
(***************************************************************************)
\* the session without the profiles menu
Next ==
  \/ startup_config
  \/ prepare_round
  \/ collect_bets
  \/ initial_deal_animated
  \/ detect_blackjacks
  \/ npc_hit
  \/ npc_stand
  \/ human_hit
  \/ human_stand
  \/ human_discard
  \/ human_quit
  \/ settle_round
  \/ another_round

Spec == Init /\ [][Next]_vars

\* the session with the profiles menu, the human not discarding
NextProfiles ==
  \/ startup_config
  \/ prepare_round
  \/ collect_bets
  \/ initial_deal_animated
  \/ detect_blackjacks
  \/ npc_hit
  \/ npc_stand
  \/ human_hit
  \/ human_stand
  \/ human_quit
  \/ settle_round
  \/ another_round
  \/ view_profiles
  \/ another_round_profiles

SpecProfiles == Init /\ [][NextProfiles]_vars

(***************************************************************************)
(* SpecLate: the ninth round of a session, from the state prepare_round    *)
(* leaves.  In the first round every NPC rolled below 6, staked 10 and won *)
(* with a natural blackjack (10 + 15 paid), the human staked 5 and lost;   *)
(* in the seven rounds after it every agent busted.  The stakes of the     *)
(* NPCs are those their personalities allow and bring each of them from    *)
(* 215 chips to 5; the human typed 5 every round and never discarded.      *)
(***************************************************************************)
\* the stakes of the first eight rounds, by roster position
LateWagers(i) ==
  IF i = 1 THEN <<5, 5, 5, 5, 5, 5, 5, 5>>
  ELSE IF NameHas(FullRoster[i], "Cautious") THEN <<10, 30, 30, 30, 30, 30, 30, 30>>
  ELSE IF NameHas(FullRoster[i], "Smart") THEN <<10, 60, 60, 20, 20, 20, 20, 10>>
  ELSE <<10, 40, 40, 40, 40, 20, 20, 10>>

LateRounds == Len(LateWagers(1))

\* the payout of the first round to an NPC, a natural blackjack on its stake
LatePayout(i) == payout_of(LateWagers(i)[1], TRUE, 0, 1)

LateChips(i) ==
  starting_chips - SumOver(LateWagers(i), 1..LateRounds) + (IF i = 1 THEN 0 ELSE LatePayout(i))

LatePlayer(i) ==
  [NewPlayer(Roster[i], i = 1, LateChips(i)) EXCEPT
     !.wager_history = LateWagers(i), !.last_bet = LateWagers(i)[LateRounds]]

LateStats(i) ==
  IF i = 1
  THEN [ZeroStats EXCEPT !.losses = LateRounds, !.total_games = LateRounds,
                         !.achievements = {"IT_HAPPENS"}]
  ELSE [ZeroStats EXCEPT !.wins = 1, !.losses = LateRounds - 1, !.best_streak = 1,
                         !.total_games = LateRounds, !.blackjacks = 2]

\* the queue of transactions: the stakes of every round in roster order, and
\* after those of the first round the payouts of the NPCs
RECURSIVE LateTransactions(_)
LateTransactions(r) ==
  IF r = 0 THEN <<>>
  ELSE LateTransactions(r - 1)
         \o [i \in 1..Len(Roster) |-> 0 - LateWagers(i)[r]]
         \o (IF r = 1 THEN [k \in 1..(Len(Roster) - 1) |-> LatePayout(k + 1)] ELSE <<>>)

InitLate ==
  /\ pc = "bets"
  /\ round = LateRounds + 1
  /\ decks \in {1, 6}
  /\ container = build_new_deck(decks)
  /\ discard = <<>>
  /\ players = [i \in 1..Len(Roster) |-> LatePlayer(i)]
  /\ betting_pot = <<>>
  /\ chip_transactions = LateTransactions(LateRounds)
  /\ persistent_stats = [n \in RosterNames |->
                           LateStats(CHOOSE i \in 1..Len(Roster) : Roster[i] = n)]
  /\ winners = <<>>
  /\ turn = 1
  /\ pass = 0
  /\ resets = 0
  /\ deal_fault = FALSE
  /\ probe = NoProbe
  /\ stats_file = save_stats_to_file(persistent_stats)

NextLate ==
  \/ collect_bets
  \/ initial_deal_animated
  \/ detect_blackjacks
  \/ npc_hit
  \/ npc_stand
  \/ human_hit
  \/ human_stand
  \/ human_discard
  \/ human_quit
  \/ settle_round
  \/ another_round

SpecLate == InitLate /\ [][NextLate]_vars

(***************************************************************************)
(* SpecHands: the pure functions, applied to every hand of up to           *)
(* MaxHandLen cards and every first card another agent can show            *)
(***************************************************************************)
\* all sequences over S of length n
RECURSIVE SeqsOfLen(_, _)
SeqsOfLen(S, n) ==
  IF n = 0 THEN {<<>>}
  ELSE {Append(q, x) : q \in SeqsOfLen(S, n - 1), x \in S}

AllRanks == {RankNames[i] : i \in 1..13}

\* a hand of the given ranks, the suits going round so that no card repeats
HandOf(ranks) == [i \in 1..Len(ranks) |-> Card(ranks[i], (i - 1) % 4)]

\* the values every other variable keeps under SpecHands and SpecBets
Idle ==
  /\ pc = "probe"
  /\ round = 0
  /\ decks = 1
  /\ container = EmptyShoe
  /\ discard = <<>>
  /\ players = <<>>
  /\ betting_pot = <<>>
  /\ chip_transactions = <<>>
  /\ persistent_stats = [n \in {} |-> ZeroStats]
  /\ winners = <<>>
  /\ turn = 0
  /\ pass = 0
  /\ resets = 0
  /\ deal_fault = FALSE
  /\ stats_file = NoFile

IdleVars == <<pc, round, decks, container, discard, players, betting_pot,
              chip_transactions, persistent_stats, winners, turn, pass, resets,
              deal_fault, stats_file>>

InitHands ==
  /\ Idle
  /\ \E n \in 0..MaxHandLen : \E ranks \in SeqsOfLen(AllRanks, n) :
       \E shown \in AllRanks \cup {"none"} :
         probe = [kind |-> "hand", done |-> FALSE, hand |-> HandOf(ranks), shown |-> shown]

\* the table smart_samantha_should_hit looks at: herself and one other agent
\* showing the card `shown`, or holding nothing
ProbeTable(hand, shown) ==
  << [NewPlayer("Smart Samantha", FALSE, starting_chips) EXCEPT !.hand = hand],
     [NewPlayer("You", TRUE, starting_chips) EXCEPT
        !.hand = IF shown = "none" THEN <<>> ELSE <<Card(shown, 3)>>] >>

evaluate_hand ==
  /\ probe.kind = "hand"
  /\ ~probe.done
  /\ LET table == ProbeTable(probe.hand, probe.shown)
     IN probe' = [kind |-> "hand", done |-> TRUE, hand |-> probe.hand,
                  shown |-> probe.shown,
                  value |-> compute_hand_value(probe.hand),
                  soft |-> is_soft_hand(probe.hand),
                  blackjack |-> is_blackjack(probe.hand),
                  up |-> get_visible_highest_card_value(table, "Smart Samantha"),
                  hit |-> smart_samantha_should_hit(table[1], table)]
  /\ UNCHANGED IdleVars

NextHands == evaluate_hand

SpecHands == InitHands /\ [][NextHands]_vars

(***************************************************************************)
(* SpecBets: one iteration of the loop of collect_bets, for every agent    *)
(* of init_players, every chip balance 1..MaxChips, every line and roll    *)
(***************************************************************************)
ProbeLines ==
  {[kind |-> "empty", n |-> 0], [kind |-> "junk", n |-> 0]}
    \cup {[kind |-> "num", n |-> k] : k \in {0 - 3, 0} \cup 1..(MaxChips + 1) \cup {1000}}

\* the balances an agent can come to collect_bets with: any for the human and
\* for Chaotic Chad, whose stakes take every value up to the chips; multiples
\* of 5 for the other NPCs, whose stakes (10, 20, 30, 40, 60 or all the
\* chips) and payouts keep the balance a multiple of 5
Balances(i) ==
  IF i = 1 \/ NameHas(FullRoster[i], "Chaotic") THEN 1..MaxChips
  ELSE {c \in 1..MaxChips : c % 5 = 0}

InitBets ==
  /\ Idle
  /\ \E i \in 1..5 : \E c \in Balances(i) : \E lb \in {0, 7, 60} : \E st \in {0, 2} :
       probe = [kind |-> "bet", done |-> FALSE,
                agent |-> [NewPlayer(FullRoster[i], i = 1, c) EXCEPT !.last_bet = lb],
                streak |-> st]

bet_once ==
  /\ probe.kind = "bet"
  /\ ~probe.done
  /\ LET p == probe.agent
     IN \E bet \in (IF p.is_human
                    THEN {human_bet(p, line) : line \in ProbeLines}
                    ELSE {npc_bet(p, roll, probe.streak) : roll \in 0..99}) :
          probe' = [kind |-> "bet", done |-> TRUE, agent |-> p, streak |-> probe.streak,
                    bet |-> bet, after |-> place_bet(p, bet),
                    pot |-> Append(<<>>, <<p.name, bet>>)]
  /\ UNCHANGED IdleVars

NextBets == bet_once

SpecBets == InitBets /\ [][NextBets]_vars

(***************************************************************************)
(* SpecUnlock: one call of unlock_achievement_for, for every player name,  *)
(* known or not, every key of UnlockKeys and every set of keys the records *)
(* hold already, the file absent or as last saved                          *)
(***************************************************************************)
UnlockKeys == {"BLACKJACK", "IT_HAPPENS", "HIGH_ROLLER"}

InitUnlock ==
  /\ pc = "probe"
  /\ round = 0
  /\ decks = 1
  /\ container = EmptyShoe
  /\ discard = <<>>
  /\ players = init_players
  /\ betting_pot = <<>>
  /\ chip_transactions = <<>>
  /\ persistent_stats \in
       [RosterNames -> {[ZeroStats EXCEPT !.achievements = a] : a \in SUBSET UnlockKeys}]
  /\ winners = <<>>
  /\ turn = 0
  /\ pass = 0
  /\ resets = 0
  /\ deal_fault = FALSE
  /\ stats_file \in {NoFile, save_stats_to_file(persistent_stats)}
  /\ \E n \in RosterNames \cup {"Nobody"} : \E k \in UnlockKeys :
       probe = [kind |-> "unlock", done |-> FALSE, player_name |-> n, ach_key |-> k]

unlock_once ==
  /\ probe.kind = "unlock"
  /\ ~probe.done
  /\ persistent_stats' =
       unlock_achievement_for(persistent_stats, probe.player_name, probe.ach_key)
  /\ stats_file' =
       unlock_file(stats_file, persistent_stats, probe.player_name, probe.ach_key)
  /\ probe' = [kind |-> "unlock", done |-> TRUE, player_name |-> probe.player_name,
               ach_key |-> probe.ach_key, before |-> persistent_stats,
               file_before |-> stats_file]
  /\ UNCHANGED <<pc, round, decks, container, discard, players, betting_pot,
                 chip_transactions, winners, turn, pass, resets, deal_fault>>

NextUnlock == unlock_once

SpecUnlock == InitUnlock /\ [][NextUnlock]_vars

(***************************************************************************)
(* SpecShoe: build_new_deck and shuffle_deck on the deque itself, a        *)
(* sequence of cards: the full shoe of 13 ranks and 4 suits is built for   *)
(* every shoe size; the shoe of ShoeRanks and ShoeSuits is built and then  *)
(* shuffled, one swap of std::shuffle to a step                            *)
(***************************************************************************)
\* a slip: the last set of the shoe left out
build_order_short(dks, suits, ranks) ==
  [k \in 1..((dks - 1) * suits * Len(ranks)) |->
     Card(ranks[((k - 1) % Len(ranks)) + 1], ((k - 1) \div Len(ranks)) % suits)]

\* the deque build_new_deck leaves: for every deck, for every suit, every
\* rank in the order of `ranks`
build_order(dks, suits, ranks) ==
  [k \in 1..(dks * suits * Len(ranks)) |->
     Card(ranks[((k - 1) % Len(ranks)) + 1], ((k - 1) \div Len(ranks)) % suits)]

\* the shoe sizes startup_config accepts
ShoeSizes == {1, 2, 4, 6}

ShoeRankOrder == SubSeq(RankPick, 1, Min(NumRanks, 13))

InitShoe ==
  /\ Idle
  /\ \E n \in ShoeSizes : \E full \in BOOLEAN :
       probe = [kind |-> "shoe", stage |-> "new", decks |-> n, full |-> full,
                container |-> <<>>, built |-> <<>>, tmp |-> <<>>, i |-> 0]

\* build_new_deck
shoe_build ==
  /\ probe.kind = "shoe"
  /\ probe.stage = "new"
  /\ LET order == IF probe.full THEN build_order(probe.decks, 4, RankNames)
                  ELSE build_order(probe.decks, Min(NumSuits, 4), ShoeRankOrder)
     IN probe' = [probe EXCEPT !.stage = "built", !.container = order, !.built = order]
  /\ UNCHANGED IdleVars

\* shuffle_deck: the deque copied to tmp
shuffle_deck ==
  /\ probe.kind = "shoe"
  /\ probe.stage = "built"
  /\ Len(probe.container) <= MaxShuffled
  /\ probe' = [probe EXCEPT !.stage = "shuffling", !.tmp = probe.container, !.i = 2]
  /\ UNCHANGED IdleVars

\* std::shuffle: the element at i changes places with one at or before it
shuffle_swap ==
  /\ probe.kind = "shoe"
  /\ probe.stage = "shuffling"
  /\ probe.i <= Len(probe.tmp)
  /\ \E j \in 1..probe.i :
       probe' = [probe EXCEPT !.tmp = [probe.tmp EXCEPT ![probe.i] = probe.tmp[j],
                                                       ![j] = probe.tmp[probe.i]],
                             !.i = probe.i + 1]
  /\ UNCHANGED IdleVars

\* shuffle_deck: container.clear(), then every card of tmp pushed back
shuffle_refill ==
  /\ probe.kind = "shoe"
  /\ probe.stage = "shuffling"
  /\ probe.i > Len(probe.tmp)
  /\ probe' = [probe EXCEPT !.stage = "shuffled", !.container = probe.tmp]
  /\ UNCHANGED IdleVars

NextShoe ==
  \/ shoe_build
  \/ shuffle_deck
  \/ shuffle_swap
  \/ shuffle_refill

SpecShoe == InitShoe /\ [][NextShoe]_vars

(***************************************************************************)
(* SpecStore: save_stats_to_file and load_stats_from_file on the text of   *)
(* the file.  A line is a sequence of symbols: a character, or a number as *)
(* operator<< prints it and operator>> reads it back.  Names and           *)
(* achievement keys are sequences of characters.                           *)
(***************************************************************************)
Ch(x) == [c |-> x, n |-> 0]
Num(k) == [c |-> "#", n |-> k]
IsSpace(sym) == sym.c = " "

\* escape_name, character by character
escape_text(name) == [i \in 1..Len(name) |-> IF name[i] = " " THEN "_" ELSE name[i]]

\* a slip: the '_' of the file kept in the name
unescape_kept(raw) == raw

\* unescape_name
unescape_name(raw) == [i \in 1..Len(raw) |-> IF raw[i] = "_" THEN " " ELSE raw[i]]

\* the order std::set<std::string> keeps its keys in
CharCode(x) == CASE x = " " -> 32 [] x = "," -> 44 [] x = "A" -> 65 [] x = "B" -> 66
                 [] x = "_" -> 95 [] x = "a" -> 97 [] OTHER -> 127

RECURSIVE KeyLess(_, _)
KeyLess(a, b) ==
  IF b = <<>> THEN FALSE
  ELSE IF a = <<>> THEN TRUE
  ELSE IF CharCode(Head(a)) # CharCode(Head(b)) THEN CharCode(Head(a)) < CharCode(Head(b))
  ELSE KeyLess(Tail(a), Tail(b))

\* the keys of the set in that order
SortedKeys(s) ==
  CHOOSE q \in [1..Cardinality(s) -> s] :
    \A i \in 1..Cardinality(s) : \A j \in 1..Cardinality(s) : i < j => KeyLess(q[i], q[j])

Chars(str) == [i \in 1..Len(str) |-> Ch(str[i])]

\* join_achievements: the keys with a ',' between them
RECURSIVE JoinFrom(_, _)
JoinFrom(keys, i) ==
  IF i > Len(keys) THEN <<>>
  ELSE (IF i > 1 THEN <<Ch(",")>> ELSE <<>>) \o Chars(keys[i]) \o JoinFrom(keys, i + 1)

join_achievements(s) == JoinFrom(SortedKeys(s), 1)

\* split_achievements: the tokens between the ',', the empty ones dropped
RECURSIVE SplitFrom(_, _, _)
SplitFrom(text, i, token) ==
  IF i > Len(text) THEN (IF token = <<>> THEN {} ELSE {token})
  ELSE IF text[i].c = ","
       THEN (IF token = <<>> THEN {} ELSE {token}) \cup SplitFrom(text, i + 1, <<>>)
       ELSE SplitFrom(text, i + 1, Append(token, text[i].c))

split_achievements(text) == SplitFrom(text, 1, <<>>)

\* the line save_stats_to_file writes for one entry
write_line(name, ps) ==
  Chars(escape_text(name))
    \o <<Ch(" "), Num(ps.wins), Ch(" "), Num(ps.losses), Ch(" "), Num(ps.ties),
         Ch(" "), Num(ps.best_streak), Ch(" "), Num(ps.current_streak),
         Ch(" "), Num(ps.biggest_win), Ch(" "), Num(ps.total_games),
         Ch(" "), Num(ps.blackjacks)>>
    \o (IF ps.achievements = {} THEN <<>>
        ELSE <<Ch(" ")>> \o join_achievements(ps.achievements))

\* save_stats_to_file: the lines of the file written anew
write_file(stats) == {write_line(n, stats[n]) : n \in DOMAIN stats}

\* the position of the first symbol at or after i that is not white space
RECURSIVE SkipSpaces(_, _)
SkipSpaces(text, i) ==
  IF i <= Len(text) /\ IsSpace(text[i]) THEN SkipSpaces(text, i + 1) ELSE i

\* the position after the run of symbols at i that are not white space
RECURSIVE TokenEnd(_, _)
TokenEnd(text, i) ==
  IF i <= Len(text) /\ ~IsSpace(text[i]) THEN TokenEnd(text, i + 1) ELSE i

\* iss >> an int, eight times from position i: the numbers read and the
\* position after them, or ok = FALSE when a field is missing or no number
RECURSIVE ReadNumbers(_, _, _)
ReadNumbers(text, i, left) ==
  IF left = 0 THEN [ok |-> TRUE, nums |-> <<>>, pos |-> i]
  ELSE LET j == SkipSpaces(text, i)
       IN IF j > Len(text) \/ text[j].c # "#" THEN [ok |-> FALSE, nums |-> <<>>, pos |-> j]
          ELSE LET r == ReadNumbers(text, j + 1, left - 1)
               IN [ok |-> r.ok, nums |-> <<text[j].n>> \o r.nums, pos |-> r.pos]

\* one line as load_stats_from_file reads it: ok = FALSE for a line it skips
read_line(text) ==
  LET a == SkipSpaces(text, 1)
      b == TokenEnd(text, a)
      rawname == [k \in 1..(b - a) |-> text[a + k - 1].c]
      r == ReadNumbers(text, b, 8)
      rest == IF r.ok THEN SubSeq(text, r.pos, Len(text)) ELSE <<>>
      pos == SkipSpaces(rest, 1)
      ach == IF pos <= Len(rest)
             THEN split_achievements(SubSeq(rest, pos, Len(rest))) ELSE {}
  IN IF text = <<>> \/ b = a \/ ~r.ok
     THEN [ok |-> FALSE, name |-> <<>>, ps |-> ZeroStats]
     ELSE [ok |-> TRUE, name |-> unescape_name(rawname),
           ps |-> [wins |-> r.nums[1], losses |-> r.nums[2], ties |-> r.nums[3],
                   best_streak |-> r.nums[4], current_streak |-> r.nums[5],
                   biggest_win |-> r.nums[6], total_games |-> r.nums[7],
                   blackjacks |-> r.nums[8], achievements |-> ach]]

\* load_stats_from_file: every line that reads well is assigned to its name
load_stats_from_file(lines, stats) ==
  LET read == {read_line(l) : l \in lines}
      good == {e \in read : e.ok}
      names == {e.name : e \in good}
  IN [n \in DOMAIN stats \cup names |->
        IF n \in names THEN (CHOOSE e \in good : e.name = n).ps ELSE stats[n]]

\* the names and keys of the records written: letters and spaces in a name,
\* as in the names of init_players; letters and '_' in a key, as in the
\* keys of all_achievements
StoreNames == UNION {SeqsOfLen({"a", " "}, k) : k \in 1..MaxNameLen}
StoreKeys == {<<"A">>, <<"B", "_", "A">>}

\* a record with every counter different from the others
StoreRecord(v, ach) ==
  [wins |-> v + 1, losses |-> v + 2, ties |-> v + 3, best_streak |-> v + 4,
   current_streak |-> v + 5, biggest_win |-> v + 6, total_games |-> v + 7,
   blackjacks |-> v + 8, achievements |-> ach]

StoreRecords == {StoreRecord(v, ach) : v \in {0, 10}, ach \in SUBSET StoreKeys}

InitStore ==
  /\ Idle
  /\ \E names \in {s \in SUBSET StoreNames : Cardinality(s) <= MaxRecords} :
       \E records \in [names -> StoreRecords] :
         probe = [kind |-> "store", stage |-> "records", records |-> records,
                  file |-> {}, loaded |-> [n \in {} |-> ZeroStats]]

\* save_stats_to_file
store_save ==
  /\ probe.kind = "store"
  /\ probe.stage = "records"
  /\ probe' = [probe EXCEPT !.stage = "saved", !.file = write_file(probe.records)]
  /\ UNCHANGED IdleVars

\* load_stats_from_file, in a process that holds no record yet
store_load ==
  /\ probe.kind = "store"
  /\ probe.stage = "saved"
  /\ probe' = [probe EXCEPT !.stage = "loaded",
                            !.loaded = load_stats_from_file(probe.file, [n \in {} |-> ZeroStats])]
  /\ UNCHANGED IdleVars

NextStore ==
  \/ store_save
  \/ store_load

SpecStore == InitStore /\ [][NextStore]_vars

(***************************************************************************)
(* SpecDeal: one call of deal_one, for every container of up to one card   *)
(* of a kind, every discard pile of up to MaxDiscardPile + 1 cards and a   *)
(* shoe of one or two decks                                                *)
(***************************************************************************)
InitDeal ==
  /\ Idle
  /\ \E cont \in [AllCards -> {0, 1}] :
       \E k \in 0..(MaxDiscardPile + 1) : \E disc \in SeqsOfLen(AllCards, k) :
         \E dks \in {1, 2} :
           probe = [kind |-> "deal", done |-> FALSE, container |-> cont,
                    discard |-> disc, decks |-> dks]

deal_once ==
  /\ probe.kind = "deal"
  /\ ~probe.done
  /\ \E o \in deal_one(probe.container, probe.discard, probe.decks) :
       probe' = [kind |-> "deal", done |-> TRUE, container |-> probe.container,
                 discard |-> probe.discard, decks |-> probe.decks, out |-> o]
  /\ UNCHANGED IdleVars

NextDeal == deal_once

SpecDeal == InitDeal /\ [][NextDeal]_vars

(***************************************************************************)
(* SpecTurn: one call of npc_turn, for every NPC of the roster holding any *)
(* two cards that are not a natural, behind a human who has stood, with up *)
(* to one card of a kind left in the container and up to one card on the   *)
(* discard pile.  SpecTurnFair adds that the loop of npc_turn goes on      *)
(* while it can.                                                           *)
(***************************************************************************)
\* the NPC sits behind the human, last at the table
NpcSeat == Len(players)

TurnTable(name, ranks, shown) ==
  << [NewPlayer("You", TRUE, starting_chips) EXCEPT
        !.hand = <<Card(shown, 3), Card("9", 2)>>, !.stood = TRUE, !.active = FALSE],
     [NewPlayer(name, FALSE, starting_chips) EXCEPT !.hand = HandOf(ranks)] >>

InitTurn ==
  /\ pc = "turns"
  /\ round = 1
  /\ decks = 1
  /\ container \in [AllCards -> {0, 1}]
  /\ discard \in SeqsOfLen(AllCards, 0) \cup SeqsOfLen(AllCards, 1)
  /\ \E i \in 2..5 : \E ranks \in SeqsOfLen(AllRanks, 2) : \E shown \in {"5", "K"} :
       /\ ~is_blackjack(HandOf(ranks))
       /\ players = TurnTable(FullRoster[i], ranks, shown)
  /\ betting_pot = <<>>
  /\ chip_transactions = <<>>
  /\ persistent_stats = [n \in {} |-> ZeroStats]
  /\ winners = <<>>
  /\ turn = NpcSeat
  /\ pass = 0
  /\ resets = 0
  /\ deal_fault = FALSE
  /\ probe = NoProbe
  /\ stats_file = NoFile

NextNpcTurn == npc_hit \/ npc_stand

SpecTurn == InitTurn /\ [][NextNpcTurn]_vars

SpecTurnFair == SpecTurn /\ WF_vars(NextNpcTurn)

(***************************************************************************)
(* SpecBroke: the session of a game constructed with no chips,             *)
(* BlackjackGame(0, 20, 1): every agent comes to the first round with a    *)
(* balance of zero                                                         *)
(***************************************************************************)
InitBroke ==
  /\ pc = "startup"
  /\ round = 0
  /\ decks = 1
  /\ container = build_new_deck(1)
  /\ discard = <<>>
  /\ players = [i \in 1..Len(Roster) |-> NewPlayer(Roster[i], i = 1, 0)]
  /\ betting_pot = <<>>
  /\ chip_transactions = <<>>
  /\ persistent_stats = [n \in RosterNames |-> ZeroStats]
  /\ winners = <<>>
  /\ turn = 0
  /\ pass = 0
  /\ resets = 0
  /\ deal_fault = FALSE
  /\ probe = NoProbe
  /\ stats_file = NoFile

SpecBroke == InitBroke /\ [][Next]_vars

(***************************************************************************)
(* Properties                                                              *)
(***************************************************************************)
Positions == 1..Len(players)

\* C1: deal_one never fails: whatever deal_one and discard_card calls came
\* before, no call of deal_one reads the front of an empty container.
DealNeverFails == deal_fault = FALSE

\* the cards of kind c that the agents hold
HeldCount(c) ==
  SumOver([i \in Positions |-> CountIn(players[i].hand, c)], Positions)

CardsOfKind(c) == container[c] + CountIn(discard, c) + HeldCount(c)

\* C2: card conservation: in every state of a session the cards undealt, on
\* the discard pile and in the agents' hands number one full set per deck,
\* and no rank/suit pair occurs more often than there are decks.
CardConservation ==
  pc # "probe" =>
    /\ SumOver([c \in AllCards |-> CardsOfKind(c)], AllCards) = Cardinality(AllCards) * decks
    /\ \A c \in AllCards : CardsOfKind(c) <= decks

BetProbed == probe.kind = "bet" /\ probe.done

\* C3: every agent's chip balance is >= 0 in every state: seated at the
\* table, and right after its stake is taken.
ChipsNeverNegative ==
  /\ \A i \in Positions : players[i].chips >= 0
  /\ BetProbed => probe.after.chips >= 0

\* C4: every bet placed by an agent with chips c > 0 satisfies 1 <= b <= c,
\* for every line the human types and every NPC and roll; the stake leaves
\* the chips at once and is appended to the bet history and to the pot.
BetWithinChips ==
  BetProbed =>
    /\ 1 <= probe.bet
    /\ probe.bet <= probe.agent.chips
    /\ probe.after.chips = probe.agent.chips - probe.bet
    /\ probe.after.wager_history = Append(probe.agent.wager_history, probe.bet)
    /\ probe.pot = <<<<probe.agent.name, probe.bet>>>>

\* the agents not busted, and those of them that hold the largest value not
\* above 21
NotBusted == {i \in Positions : ~players[i].busted}
TopHands ==
  {i \in NotBusted :
     /\ hand_value(players[i]) <= 21
     /\ \A j \in NotBusted :
          hand_value(players[j]) <= 21 => hand_value(players[j]) <= hand_value(players[i])}

\* C5: winner determination: settlement makes the winners exactly the agents
\* not busted whose hand value is the largest not above 21 among the agents
\* not busted; when every agent is busted there is no winner and settlement
\* changes no agent's chips.
WinnersRule ==
  [][pc = "settle" =>
       /\ {winners'[k] : k \in 1..Len(winners')} = TopHands
       /\ Len(winners') = Cardinality(TopHands)
       /\ (NotBusted = {} =>
             /\ winners' = <<>>
             /\ \A i \in Positions : players'[i].chips = players[i].chips)]_vars

\* C5, its case: a round settled with one winner and a loser that is not busted
WinnerPickedByValue ==
  /\ pc = "ask"
  /\ Len(winners) = 1
  /\ \E i \in NotBusted : ~IsWinner(winners, i)

\* the stake the agent at position i has in the pot
Stake(i) == bet_by_player(betting_pot, players[i].name)
Natural(i) == Len(players[i].hand) = 2 /\ hand_value(players[i]) = 21

\* C6 as stated: a winner with stake s > 0 is credited s x 2.5 on a natural
\* blackjack and s x 2 otherwise, whoever else wins.
PayoutExact ==
  [][pc = "settle" =>
       \A k \in 1..Len(winners') :
         LET i == winners'[k]
             credited == players'[i].chips - players[i].chips
         IN Stake(i) > 0 =>
              IF Natural(i) THEN 2 * credited = 5 * Stake(i)
              ELSE credited = 2 * Stake(i)]_vars

\* C6, amended: a winner with stake s > 0 is credited s plus the whole part
\* of 3s/2 on a natural blackjack (s x 2.5 rounded down) and s x 2 otherwise,
\* whoever else wins.
PayoutRule ==
  [][pc = "settle" =>
       \A k \in 1..Len(winners') :
         LET i == winners'[k]
             credited == players'[i].chips - players[i].chips
             half == CHOOSE h \in 0..(3 * Stake(i)) :
                       2 * h <= 3 * Stake(i) /\ 3 * Stake(i) < 2 * (h + 1)
         IN Stake(i) > 0 =>
              IF Natural(i) THEN credited = Stake(i) + half
              ELSE credited = 2 * Stake(i)]_vars

\* C6, its case: a natural blackjack has been paid on an odd stake
OddStakeBlackjackPaid ==
  /\ pc = "ask"
  /\ \E k \in 1..Len(winners) :
       Natural(winners[k]) /\ Stake(winners[k]) % 2 = 1

HandProbed == probe.kind = "hand" /\ probe.done

\* the valuation of section 3 of the specification, over the ranks of a hand:
\* 2-10 at face value, J, Q, K 10, every ace 11
FaceValue(r) ==
  IF r = "A" THEN 11
  ELSE IF r \in {"J", "Q", "K"} THEN 10
  ELSE 1 + CHOOSE i \in 1..9 : RankNames[i] = r

FaceSum(hand) ==
  SumOver([i \in 1..Len(hand) |-> FaceValue(hand[i].rank)], 1..Len(hand))

Aces(hand) == Cardinality({i \in 1..Len(hand) : hand[i].rank = "A"})

\* the number of aces re-counted as 1: the least m with the total at most 21
\* or no ace left
Recounted(hand) ==
  CHOOSE m \in 0..Aces(hand) :
    /\ FaceSum(hand) - 10 * m <= 21 \/ m = Aces(hand)
    /\ \A j \in 0..(m - 1) : FaceSum(hand) - 10 * j > 21

\* C7: hand valuation: compute_hand_value is the same for every reordering
\* of the hand; it is the face sum (ace 11) less 10 for each ace re-counted
\* while the total is above 21; so it is at most 21 whenever some count of
\* the aces as 1 or 11 gives a total of at most 21.
HandValueRule ==
  HandProbed =>
    LET hand == probe.hand
    IN /\ \A f \in Permutations(1..Len(hand)) :
            compute_hand_value([i \in 1..Len(hand) |-> hand[f[i]]]) = probe.value
       /\ probe.value = FaceSum(hand) - 10 * Recounted(hand)
       /\ (\E j \in 0..Aces(hand) : FaceSum(hand) - 10 * j <= 21) => probe.value <= 21

\* C7, its case: a hand valued after two of its aces had to be re-counted
TwoAcesRecounted ==
  /\ HandProbed
  /\ Recounted(probe.hand) = 2
  /\ probe.value <= 21

\* an ace of the hand still counts 11 in the value
AceAtEleven(hand, value) == Aces(hand) > 0 /\ value - (FaceSum(hand) - 10 * Aces(hand)) >= 10

\* C8: is_soft_hand is true if and only if the hand holds an ace that still
\* counts 11 in the total compute_hand_value returns.
SoftIffAceAtEleven ==
  HandProbed => (probe.soft <=> AceAtEleven(probe.hand, probe.value))

\* the card value the other agent shows, never below 2
ShownValue == IF probe.shown = "none" THEN 2 ELSE Max(2, FaceValue(probe.shown))

\* C9: the analytical policy: on a soft hand (an ace still counted 11) hit
\* iff value <= 17 or (value = 18 and up >= 9); on a hard hand hit iff
\* value <= 11 or (12 <= value <= 16 and up not in 2..6), up being the
\* highest card value the other agents show.
SamanthaFollowsPolicy ==
  HandProbed =>
    LET v == probe.value
        up == ShownValue
    IN probe.hit <=>
         IF AceAtEleven(probe.hand, v)
         THEN v <= 17 \/ (v = 18 /\ up >= 9)
         ELSE v <= 11 \/ (12 <= v /\ v <= 16 /\ ~(2 <= up /\ up <= 6))

\* the agents with a stake in the pot of the round
Bettors == {i \in Positions : \E k \in 1..Len(betting_pot) : betting_pot[k][1] = players[i].name}

\* C10: statistics change exactly once per round per agent: settlement adds
\* 1 to total_games of every agent that placed a bet and 1 to exactly one
\* of wins, losses and ties, wins if and only if the agent is a winner; when
\* every agent busted each bettor's losses grow by 1 and its current streak
\* becomes 0.
StatsOncePerRound ==
  [][pc = "settle" =>
       \A i \in Bettors :
         LET old == persistent_stats[players[i].name]
             new == persistent_stats'[players[i].name]
             won == \E k \in 1..Len(winners') : winners'[k] = i
         IN /\ new.total_games = old.total_games + 1
            /\ (new.wins - old.wins) + (new.losses - old.losses) + (new.ties - old.ties) = 1
            /\ new.wins - old.wins = (IF won THEN 1 ELSE 0)
            /\ new.losses - old.losses \in {0, 1}
            /\ new.ties - old.ties \in {0, 1}
            /\ (winners' = <<>> => new.losses = old.losses + 1 /\ new.current_streak = 0)]_vars

\* C10, its case: a round settled with every agent busted
AllBustSettled ==
  /\ pc = "ask"
  /\ Bettors # {}
  /\ winners = <<>>
  /\ \A i \in Positions : players[i].busted

\* C11: the blackjack counter grows by exactly 1 in a round for every agent
\* whose final hand is a natural blackjack, winner or not, and by nothing for
\* any other agent: after the first round of a session it is 1 for such an
\* agent and 0 for the others, and after any round it is not above the
\* number of rounds the agent has played.
BlackjackCountedOnce ==
  pc = "ask" =>
    \A i \in Positions :
      LET ps == persistent_stats[players[i].name]
      IN /\ round = 1 => ps.blackjacks = (IF Natural(i) THEN 1 ELSE 0)
         /\ ps.blackjacks <= ps.total_games

\* C12: streak update: settlement makes a winner's current streak its
\* previous value + 1 and every other agent's current streak 0, and every
\* agent's best streak the larger of its previous best streak and its new
\* current streak.
StreakRule ==
  [][pc = "settle" =>
       \A i \in Positions :
         LET old == persistent_stats[players[i].name]
             new == persistent_stats'[players[i].name]
         IN /\ new.current_streak =
                 (IF IsWinner(winners', i) THEN old.current_streak + 1 ELSE 0)
            /\ new.best_streak = Max(old.best_streak, new.current_streak)]_vars

\* C12, its case: a round settled in which an agent that had won the round
\* before did not win, its streak back at 0 under a best streak of 1
StreakBroken ==
  /\ pc = "ask"
  /\ round = 2
  /\ \E i \in Positions :
       /\ ~IsWinner(winners, i)
       /\ persistent_stats[players[i].name].current_streak = 0
       /\ persistent_stats[players[i].name].best_streak = 1

\* C13: the best streak never falls: over the rounds and the profile-store
\* operations of a session no record's best_streak becomes smaller than it
\* was.
BestStreakNeverFalls ==
  [][\A n \in DOMAIN persistent_stats :
       persistent_stats'[n].best_streak >= persistent_stats[n].best_streak]_vars

\* C14: the unlocked achievements never shrink: over the rounds, the unlock
\* calls and the profile-store operations of a session an identifier once in
\* a record's set stays in it.
AchievementsNeverShrink ==
  [][\A n \in DOMAIN persistent_stats :
       persistent_stats[n].achievements \subseteq persistent_stats'[n].achievements]_vars

UnlockProbed == probe.kind = "unlock" /\ probe.done

\* C15: achievement unlock is idempotent: a call of unlock_achievement_for
\* with a key the record holds already, or for a name without a record,
\* changes no record and leaves the file as it was; a call with a new key
\* adds that key and nothing else, and the file is written at once with the
\* records as they then are.
UnlockIdempotent ==
  UnlockProbed =>
    LET n == probe.player_name
        k == probe.ach_key
        b == probe.before
    IN /\ players = init_players
       /\ IF n \notin DOMAIN b \/ k \in b[n].achievements
          THEN persistent_stats = b /\ stats_file = probe.file_before
          ELSE /\ persistent_stats = [b EXCEPT ![n].achievements = @ \cup {k}]
               /\ stats_file = save_stats_to_file(persistent_stats)
               /\ stats_file.exists
       /\ unlock_achievement_for(persistent_stats, n, k) = persistent_stats
       /\ unlock_file(stats_file, persistent_stats, n, k) = stats_file

\* C15, its case: a key called for a record that holds it, no file written yet
HeldKeyCalledAgain ==
  /\ UnlockProbed
  /\ probe.player_name \in DOMAIN probe.before
  /\ probe.ach_key \in probe.before[probe.player_name].achievements
  /\ ~probe.file_before.exists

\* C16: dealing: when the deal is over every agent that placed a bet in the
\* round holds exactly two cards, and the cards went out in two passes in
\* roster order: while the deal runs no agent holds a second card before
\* every agent has its first, and no agent holds more cards than an agent
\* seated before it.
DealtTwoEach ==
  /\ pc = "blackjacks" => \A i \in Bettors : Len(players[i].hand) = 2
  /\ pc = "deal" =>
       \A i \in Bettors : \A j \in Bettors :
         /\ Len(players[i].hand) = 2 => Len(players[j].hand) >= 1
         /\ i < j => Len(players[i].hand) >= Len(players[j].hand)

\* a two-card hand of value 21
NaturalHand(p) == Len(p.hand) = 2 /\ hand_value(p) = 21

\* C17: natural blackjack handling: the scan that follows the deal, before
\* any hit/stand decision, marks stood every agent whose two-card hand has
\* value 21; such an agent is never given a turn and its hand gets no
\* further card in the round.
NaturalsSitOut ==
  [][/\ pc = "blackjacks" =>
          \A i \in Positions : NaturalHand(players[i]) => players'[i].stood
     /\ pc' = "turns" => ~(NaturalHand(players'[turn']) /\ players'[turn'].stood)
     /\ pc = "turns" =>
          \A i \in Positions :
            NaturalHand(players[i]) /\ players[i].stood =>
              i # turn /\ players'[i].hand = players[i].hand]_vars

\* C17, its case: an agent sits out with a natural blackjack while the agent
\* whose turn it is has drawn a card
NaturalSitsWhileOtherDraws ==
  /\ pc = "turns"
  /\ Len(players[turn].hand) >= 3
  /\ \E i \in Positions : i # turn /\ NaturalHand(players[i]) /\ players[i].stood

\* C18: turn discipline: the turns of a round go through the roster once,
\* never back to an earlier agent; a turn ends only with the agent stood or
\* busted; and an agent that is stood or busted is not given a decision and
\* keeps its hand and status until the round is over.
TurnDiscipline ==
  [][/\ pc = "turns" /\ pc' = "turns" => turn' >= turn
     /\ pc = "turns" /\ (pc' = "settle" \/ turn' # turn) =>
          players'[turn].stood \/ players'[turn].busted
     /\ pc \in {"turns", "settle"} =>
          \A i \in Positions :
            players[i].stood \/ players[i].busted =>
              /\ ~(pc = "turns" /\ turn = i)
              /\ players'[i].hand = players[i].hand
              /\ players'[i].stood = players[i].stood
              /\ players'[i].busted = players[i].busted]_vars

\* C18, its case: the human's turn ended with a bust and a later agent has
\* drawn a card in its own turn
LaterTurnAfterBust ==
  /\ pc = "turns"
  /\ turn > 1
  /\ players[1].busted
  /\ Len(players[turn].hand) >= 3

\* C19: settlement is computed only when every agent of the roster that
\* placed a bet in the round is stood or busted.
SettledWhenAllTerminal ==
  pc = "settle" => \A i \in Bettors : players[i].stood \/ players[i].busted

\* C20: build_new_deck leaves the discard pile empty: after the build of the
\* low-card check of prepare_round, as after every other build, no card is
\* on the discard pile.
BuildClearsDiscard ==
  [][pc = "prepare" /\ DeckSize(container) < LowCardThreshold => discard' = <<>>]_vars

\* how often the card c is in the sequence
Occurrences(cards, c) == Cardinality({k \in 1..Len(cards) : cards[k] = c})

\* the rank/suit pairs of the shoe under the probe
ShoeKinds ==
  IF probe.full THEN {Card(RankNames[r], s) : r \in 1..13, s \in 0..3} ELSE AllCards

\* C21: a freshly built shoe of N decks, N in {1, 2, 4, 6}, holds every
\* rank/suit pair exactly N times and nothing else, 52 x N cards when built
\* from the 13 ranks and 4 suits; shuffle_deck leaves the number of every
\* card in the shoe as it was.
ShoeBuiltAndShuffled ==
  probe.kind = "shoe" /\ probe.stage # "new" =>
    /\ Len(probe.built) = Cardinality(ShoeKinds) * probe.decks
    /\ probe.full => Len(probe.built) = 52 * probe.decks
    /\ \A c \in ShoeKinds : Occurrences(probe.built, c) = probe.decks
    /\ ~probe.full => \A c \in AllCards : Occurrences(probe.built, c) = build_new_deck(probe.decks)[c]
    /\ probe.stage \in {"built", "shuffled"} =>
         /\ Len(probe.container) = Len(probe.built)
         /\ \A c \in ShoeKinds : Occurrences(probe.container, c) = Occurrences(probe.built, c)

\* C21, its case: a shoe of six decks shuffled into another order
SixDecksShuffled ==
  /\ probe.kind = "shoe"
  /\ probe.stage = "shuffled"
  /\ probe.decks = 6
  /\ probe.container # probe.built

Seated(pls) == {pls[i].name : i \in 1..Len(pls)}

DealProbed == probe.kind = "deal" /\ probe.done

\* the container with the card dealt put back
WithDealt(o, c) == o.cont[c] + (IF ~o.fault /\ o.card = c THEN 1 ELSE 0)

\* C24: exhaustion reshuffle: a call of deal_one with the container empty
\* and k >= 1 cards on the discard pile moves the k - 1 cards under the top
\* into the container, and when it returns the discard pile holds one card,
\* the one discarded last; with the discard pile empty as well the container
\* is built anew as a full shoe.
ExhaustionReshuffle ==
  DealProbed /\ DeckSize(probe.container) = 0 =>
    LET d == probe.discard
        o == probe.out
    IN IF d # <<>>
       THEN /\ o.disc = <<d[Len(d)]>>
            /\ \A c \in AllCards :
                 WithDealt(o, c) = Occurrences(SubSeq(d, 1, Len(d) - 1), c)
       ELSE /\ o.disc = <<>>
            /\ ~o.fault
            /\ \A c \in AllCards : WithDealt(o, c) = probe.decks

\* C24, its case: deal_one returned a card folded in from a discard pile of
\* three
DealtFromFoldedPile ==
  /\ DealProbed
  /\ DeckSize(probe.container) = 0
  /\ Len(probe.discard) = 3
  /\ ~probe.out.fault
  /\ DeckSize(probe.out.cont) = 1

Npc == players[NpcSeat]

\* C25: every NPC turn terminates: the NPC comes to stood or busted after
\* finitely many hits.
NpcTurnTerminates == <>(Npc.stood \/ Npc.busted)

\* the same, a process stopped inside deal_one counted as an end
NpcTurnEndsOrStops == <>(Npc.stood \/ Npc.busted \/ pc = "crashed")

\* the value below which the threshold policies hit
HitBelow(name) ==
  IF name = "Cautious Carl" THEN 13 ELSE IF name = "Reckless Randy" THEN 20 ELSE 0

ThresholdNpc == Npc.name \in {"Cautious Carl", "Reckless Randy"}

\* C26: threshold policies: Cautious Carl hits exactly while his hand value
\* is below 13 and Reckless Randy exactly while his is below 20; when the
\* turn ends the NPC is busted with a value above 21 or stood with a value
\* from its threshold to 21.
ThresholdPolicies ==
  [][(pc = "turns" /\ ThresholdNpc) =>
       LET th == HitBelow(Npc.name)
           q  == players'[NpcSeat]
       IN /\ hand_value(Npc) < th =>
               /\ ~q.stood
               /\ pc' = "crashed" \/ Len(q.hand) = Len(Npc.hand) + 1
          /\ hand_value(Npc) >= th => q.stood /\ q.hand = Npc.hand
          /\ q.busted <=> hand_value(q) > 21
          /\ q.stood => hand_value(q) \in th..21
          /\ pc' = "settle" <=> (q.stood \/ q.busted)]_vars

\* C26, its case: Reckless Randy stood on four cards or more, Cautious Carl
\* would have stood earlier
RandyStoodAfterHits ==
  /\ pc = "settle"
  /\ Npc.name = "Reckless Randy"
  /\ Npc.stood
  /\ Len(Npc.hand) >= 4
  /\ hand_value(Npc) \in 20..21

\* the human's record gains the key in this step
NewlyUnlocked(key) ==
  /\ "You" \in DOMAIN persistent_stats
  /\ key \notin persistent_stats["You"].achievements
  /\ key \in persistent_stats'["You"].achievements

\* the payout the human receives in the round being settled
HumanPayout ==
  IF pays(betting_pot, winners') /\ IsWinner(winners', 1)
  THEN winner_payout(players, betting_pot, winners', 1) ELSE 0

\* C27: HIGH_ROLLER is unlocked only in the settlement of a round the human
\* won and in which the human's own payout is 40 or more; payouts of other
\* agents and of earlier rounds do not unlock it.
HighRollerOnOwnPayout ==
  [][NewlyUnlocked("HIGH_ROLLER") =>
       /\ pc = "settle"
       /\ HumanWon(players, winners')
       /\ HumanPayout >= 40]_vars

\* C28: AGAINST_ODDS is unlocked only in the settlement of a round the human
\* won while an opponent holding 20 or 21 is not among the winners.
AgainstOddsOnBeatenOpponent ==
  [][NewlyUnlocked("AGAINST_ODDS") =>
       /\ pc = "settle"
       /\ HumanWon(players, winners')
       /\ \E i \in Positions :
            /\ ~players[i].is_human
            /\ hand_value(players[i]) \in {20, 21}
            /\ ~IsWinner(winners', i)]_vars

\* the payout the agent at position i receives in the round being settled
PayoutAt(i) ==
  IF pays(betting_pot, winners') /\ IsWinner(winners', i)
  THEN winner_payout(players, betting_pot, winners', i) ELSE 0

\* C29: biggest_win of a record is, after every round, the largest payout
\* its agent received in a single round since the record was zeroed: each
\* settlement leaves it at the larger of its old value and the payout of the
\* round.
BiggestWinTracksPayouts ==
  [][pc = "settle" =>
       \A i \in Positions :
         persistent_stats'[players[i].name].biggest_win =
           Max(persistent_stats[players[i].name].biggest_win, PayoutAt(i))]_vars

BustedIffOver ==
  /\ pc = "settle" =>
       \A i \in Positions : players[i].busted <=> hand_value(players[i]) > 21
  /\ \A i \in Positions : ~(players[i].stood /\ players[i].busted)

\* C32, its case: a settlement with one agent busted and another stood
BustedAndStoodAtSettlement ==
  /\ pc = "settle"
  /\ \E i \in Positions : players[i].busted /\ hand_value(players[i]) > 21
  /\ \E i \in Positions : players[i].stood /\ Len(players[i].hand) >= 3

\* C33: from zeroed records on, after every round and after every profile
\* reset, every record has wins + losses + ties = total_games and
\* best_streak >= current_streak >= 0.
RecordsAddUp ==
  \A n \in DOMAIN persistent_stats :
    LET ps == persistent_stats[n]
    IN /\ ps.wins + ps.losses + ps.ties = ps.total_games
       /\ ps.best_streak >= ps.current_streak
       /\ ps.current_streak >= 0

\* C33, its case: after a reset and two rounds, a record with a win, a loss
\* and a best streak above the current one
RecordAfterWinLossAndReset ==
  /\ pc = "ask"
  /\ resets = 1
  /\ \E n \in DOMAIN persistent_stats :
       /\ persistent_stats[n].wins = 1
       /\ persistent_stats[n].losses = 1
       /\ persistent_stats[n].best_streak > persistent_stats[n].current_streak
  /\ \E n \in DOMAIN persistent_stats : persistent_stats[n].total_games = 1

\* the agent at position i was dealt into the round: it has a stake in the
\* pot and was not passed over by the deal
DealtIn(i) ==
  /\ bet_by_player(betting_pot, players[i].name) >= 1
  /\ players[i].chips >= 0

\* C34: at settlement every agent dealt into the round holds two cards or
\* more, worth 4 or more, and no winner holds fewer than two cards, whatever
\* the human hit, discarded or stood on.
TwoCardsAtSettlement ==
  [][pc = "settle" =>
       /\ \A i \in Positions :
            DealtIn(i) => Len(players[i].hand) >= 2 /\ hand_value(players[i]) >= 4
       /\ \A k \in 1..Len(winners') : Len(players[winners'[k]].hand) >= 2]_vars

====
